---------------------------- MODULE Spec2Model ----------------------------
(***************************************************************************)
(* fx_plot: the Kafka ingestion loop (consumer.rs), the market data store  *)
(* it fills under a mutex, and the egui render callback (lib.rs) that      *)
(* reads the store under the same mutex.                                   *)
(*                                                                         *)
(* Strings are sequences of one-character strings.  A u64 is kept at its   *)
(* full width as three limbs <<a, b, c>> = a*10^18 + b*10^9 + c with       *)
(* 0 <= b, c < 10^9, because the model checker's integers are 32 bits      *)
(* wide; a count of whole seconds is two limbs <<a, b>> = a*10^9 + b.      *)
(***************************************************************************)
EXTENDS Integers, Sequences, FiniteSets, TLC

(***************************************************************************)
(* Bounds of the model.                                                    *)
(***************************************************************************)
\* number of messages the transport delivers in one behaviour
MaxMsgs == 3

\* fields a payload may carry beyond the ninth
MaxExtraFields == 1

\* the axis ticks tried at every whole minute up to this many minutes
MaxTickMinutes == 70

(***************************************************************************)
(* Program constants.                                                      *)
(***************************************************************************)
\* consumer.rs:146  get_params(payload, 9)
NumFields == 9
\* consumer.rs:211  (timestamp - lp.zero_time_ref) / 1000000000
NanosPerSec == 1000000000

(***************************************************************************)
(* Characters and strings.                                                 *)
(***************************************************************************)
Digits == <<"0", "1", "2", "3", "4", "5", "6", "7", "8", "9">>

IsDigit(c) == \E i \in 1..10 : Digits[i] = c

DigitVal(c) == (CHOOSE i \in 1..10 : Digits[i] = c) - 1

\* char::is_whitespace, on the model's alphabet
IsSpace(c) == c = " "

RECURSIVE TrimStart(_)
TrimStart(s) ==
    IF s # <<>> /\ IsSpace(Head(s)) THEN TrimStart(Tail(s)) ELSE s

RECURSIVE TrimEnd(_)
TrimEnd(s) ==
    IF s # <<>> /\ IsSpace(s[Len(s)]) THEN TrimEnd(SubSeq(s, 1, Len(s) - 1)) ELSE s

\* str::trim
Trim(s) == TrimEnd(TrimStart(s))

\* str::split("|"): the fields between the delimiters, empty ones included;
\* a string without a delimiter is one field
RECURSIVE SplitFrom(_, _, _)
SplitFrom(s, i, cur) ==
    IF i > Len(s) THEN <<cur>>
    ELSE IF s[i] = "|" THEN <<cur>> \o SplitFrom(s, i + 1, <<>>)
    ELSE SplitFrom(s, i + 1, Append(cur, s[i]))

Split(s) == SplitFrom(s, 1, <<>>)

\* Iterator::next().unwrap_or(""): the k-th field, "" past the end
FieldOr(fields, k) == IF k <= Len(fields) THEN fields[k] ELSE <<>>

AllDigits(s) == \A i \in 1..Len(s) : IsDigit(s[i])

\* value of a string of at most 9 digits
RECURSIVE DigitsToNat(_)
DigitsToNat(s) ==
    IF s = <<>> THEN 0
    ELSE DigitsToNat(SubSeq(s, 1, Len(s) - 1)) * 10 + DigitVal(s[Len(s)])

RECURSIVE StripZeros(_)
StripZeros(s) ==
    IF s # <<>> /\ Head(s) = "0" THEN StripZeros(Tail(s)) ELSE s

(***************************************************************************)
(* u64 arithmetic on limbs.                                                *)
(***************************************************************************)
\* u64::MAX = 18446744073709551615
U64Max == <<18, 446744073, 709551615>>

U64Lt(x, y) ==
    \/ x[1] < y[1]
    \/ x[1] = y[1] /\ x[2] < y[2]
    \/ x[1] = y[1] /\ x[2] = y[2] /\ x[3] < y[3]

U64Le(x, y) == x = y \/ U64Lt(x, y)

\* x - y for y <= x
U64Sub(x, y) ==
    LET c0 == x[3] - y[3]
        k1 == IF c0 < 0 THEN 1 ELSE 0
        b0 == x[2] - y[2] - k1
        k2 == IF b0 < 0 THEN 1 ELSE 0
    IN  <<x[1] - y[1] - k2, b0 + k2 * NanosPerSec, c0 + k1 * NanosPerSec>>

\* x + 1 for x < u64::MAX
U64Incr(x) ==
    IF x[3] + 1 < NanosPerSec THEN <<x[1], x[2], x[3] + 1>>
    ELSE IF x[2] + 1 < NanosPerSec THEN <<x[1], x[2] + 1, 0>>
    ELSE <<x[1] + 1, 0, 0>>

\* u64::wrapping_sub: (x - y) mod 2^64
WrappingSub(x, y) ==
    IF U64Le(y, x) THEN U64Sub(x, y)
    ELSE U64Incr(U64Sub(U64Max, U64Sub(y, x)))

(***************************************************************************)
(* Number parsing (str::parse), on the model's alphabet: digits, signs,    *)
(* the space and letters.  Results are [ok, val].                          *)
(***************************************************************************)
\* <f64 as FromStr>: an optional sign and a non-empty run of digits; the
\* model's prices carry no fraction or exponent and at most 9 digits
ParseF64(s) ==
    LET signed == s # <<>> /\ Head(s) \in {"+", "-"}
        body   == IF signed THEN Tail(s) ELSE s
    IN  IF body = <<>> \/ ~AllDigits(body) THEN [ok |-> FALSE, val |-> 0]
        ELSE [ok |-> TRUE,
              val |-> IF signed /\ Head(s) = "-" THEN 0 - DigitsToNat(body)
                      ELSE DigitsToNat(body)]

\* <u64 as FromStr>: an optional "+" and a non-empty run of digits whose
\* value is at most u64::MAX; a "-" is an invalid digit
ParseU64(s) ==
    LET body == IF s # <<>> /\ Head(s) = "+" THEN Tail(s) ELSE s
        d    == StripZeros(body)
        n    == Len(d)
        lo   == IF n > 9 THEN SubSeq(d, n - 8, n) ELSE d
        mid  == IF n > 18 THEN SubSeq(d, n - 17, n - 9)
                ELSE IF n > 9 THEN SubSeq(d, 1, n - 9) ELSE <<>>
        hi   == IF n > 18 THEN SubSeq(d, 1, n - 18) ELSE <<>>
        v    == <<DigitsToNat(hi), DigitsToNat(mid), DigitsToNat(lo)>>
    IN  IF body = <<>> \/ ~AllDigits(body) THEN [ok |-> FALSE, val |-> <<0, 0, 0>>]
        ELSE IF n > 20 THEN [ok |-> FALSE, val |-> <<0, 0, 0>>]
        ELSE IF U64Lt(U64Max, v) THEN [ok |-> FALSE, val |-> <<0, 0, 0>>]
        ELSE [ok |-> TRUE, val |-> v]

(***************************************************************************)
(* consumer.rs: field access.  Results are [err, val], err = "Ok" on       *)
(* success and the AppError variant otherwise.                             *)
(***************************************************************************)
\* the count compared with <= (mutant of get_params)
get_params_off_by_one(data, number) ==
    LET value == Split(data)
    IN  IF Len(value) <= number THEN [err |-> "NumParams", val |-> <<>>]
        ELSE [err |-> "Ok", val |-> value]

get_params(data, number) ==
    LET value == Split(data)
    IN  IF Len(value) < number THEN [err |-> "NumParams", val |-> <<>>]
        ELSE [err |-> "Ok", val |-> value]

\* get_str_field returning the field as it came (mutant of get_str_field)
get_str_field_untrimmed(field) ==
    IF Trim(field) = <<>> THEN [err |-> "IsEmpty", val |-> <<>>]
    ELSE [err |-> "Ok", val |-> field]

get_str_field(field) ==
    IF Trim(field) = <<>> THEN [err |-> "IsEmpty", val |-> <<>>]
    ELSE [err |-> "Ok", val |-> Trim(field)]

NoQuote(e) ==
    [err |-> e, liquidity_provider |-> <<>>, vol_prices_vec |-> <<>>,
     timestamp |-> <<0, 0, 0>>]

\* extract_market_data, first half: the fields are consumed in order and the
\* first failing one returns its error (the ? operator)
ParseQuote(payload) ==
    LET p == get_params(payload, NumFields)
    IN  IF p.err # "Ok" THEN NoQuote(p.err)
        ELSE
        LET f  == p.val
            lp == get_str_field(FieldOr(f, 1))
            cp == get_str_field(FieldOr(f, 2))
            px == [k \in 1..6 |-> ParseF64(Trim(FieldOr(f, k + 2)))]
            ts == ParseU64(Trim(FieldOr(f, 9)))
        IN  IF lp.err # "Ok" THEN NoQuote(lp.err)
            ELSE IF cp.err # "Ok" THEN NoQuote(cp.err)
            ELSE IF \E k \in 1..6 : ~px[k].ok THEN NoQuote("ParseFloat")
            ELSE IF ~ts.ok THEN NoQuote("ParseInt")
            ELSE [err |-> "Ok",
                  liquidity_provider |-> lp.val,
                  vol_prices_vec |-> [k \in 1..6 |-> px[k].val],
                  timestamp |-> ts.val]

\* one_mill_buy_price: the first of the six prices
\* the third price kept instead of the first (mutant of OneMillBuy)
OneMillBuy_Third(q) == q.vol_prices_vec[3]

OneMillBuy(q) == q.vol_prices_vec[1]

(***************************************************************************)
(* consumer.rs: the store, a Vec<LpBuyPoints>.                             *)
(***************************************************************************)
NewLp(name) ==
    [name |-> name, buy_points |-> <<>>, zero_time_ref |-> <<0, 0, 0>>,
     global_start_hour |-> 0, global_start_minute |-> 0]

HasLp(lps, name) == \E i \in 1..Len(lps) : lps[i].name = name

\* iter_mut().find(..): the first entry of that name
FindLp(lps, name) ==
    CHOOSE i \in 1..Len(lps) :
        lps[i].name = name /\ \A j \in 1..(i - 1) : lps[j].name # name

\* the new entry put first (mutant of EnsureProvider)
EnsureProvider_Front(lps, name) ==
    IF \A i \in 1..Len(lps) : lps[i].name # name
    THEN <<NewLp(name)>> \o lps
    ELSE lps

\* extract_market_data, the lookup: an unknown provider gets an empty entry
\* at the end of the vector
EnsureProvider(lps, name) ==
    IF \A i \in 1..Len(lps) : lps[i].name # name
    THEN Append(lps, NewLp(name))
    ELSE lps

\* whole seconds since the epoch of a u64 of nanoseconds
SecsOf(ts) == <<ts[1], ts[2]>>

\* second of the UTC day: (a*10^9 + b) mod 86400, limb by limb
SecOfDay(ts) == (ts[1] * (NanosPerSec % 86400) + ts[2]) % 86400

\* "%I", the hour of the 12-hour clock (mutant of FormatHour)
FormatHour_12h(ts) ==
    LET h12 == ((((SecOfDay(ts) \div 3600) + 11) % 12) + 1)
    IN  <<Digits[(h12 \div 10) + 1], Digits[(h12 % 10) + 1]>>

\* chrono's "%H" and "%M": two digits, zero padded
Format02(n) == <<Digits[(n \div 10) + 1], Digits[(n % 10) + 1]>>

FormatHour(ts) == Format02(SecOfDay(ts) \div 3600)

FormatMinute(ts) == Format02((SecOfDay(ts) % 3600) \div 60)

\* .parse::<f64>() with the fallback to 0.0
ParseOrZero(s) == IF ParseF64(s).ok THEN ParseF64(s).val ELSE 0

\* timestamp - lp.zero_time_ref leaves the range of u64
Underflows(lps, q) ==
    LET lp == lps[FindLp(lps, q.liquidity_provider)]
    IN  lp.buy_points # <<>> /\ U64Lt(q.timestamp, lp.zero_time_ref)

\* the division rounding to the nearest second (mutant of AdjustedTimestamp)
AdjustedTimestamp_Rounded(timestamp, zero_time_ref) ==
    LET d == WrappingSub(timestamp, zero_time_ref)
        s == SecsOf(d)
    IN  IF d[3] * 2 < NanosPerSec THEN s
        ELSE IF s[2] + 1 < NanosPerSec THEN <<s[1], s[2] + 1>>
        ELSE <<s[1] + 1, 0>>

\* adjusted_timestamp: whole seconds since the provider's first quote
AdjustedTimestamp(timestamp, zero_time_ref) ==
    SecsOf(WrappingSub(timestamp, zero_time_ref))

\* the first point placed at the quote's own seconds (mutant of AddBuyPoint)
AddBuyPoint_AbsoluteFirst(lps, q) ==
    LET i  == FindLp(lps, q.liquidity_provider)
        lp == lps[i]
    IN  IF Len(lp.buy_points) = 0
        THEN [lps EXCEPT ![i] =
                [name |-> lp.name,
                 buy_points |-> <<<< SecsOf(q.timestamp), OneMillBuy(q) >>>>,
                 zero_time_ref |-> q.timestamp,
                 global_start_hour |-> ParseOrZero(FormatHour(q.timestamp)),
                 global_start_minute |-> ParseOrZero(FormatMinute(q.timestamp))]]
        ELSE [lps EXCEPT ![i].buy_points =
                Append(@, << AdjustedTimestamp(q.timestamp, lp.zero_time_ref),
                             OneMillBuy(q) >>)]

\* every quote moving the anchor to its own timestamp (mutant of AddBuyPoint)
AddBuyPoint_Reanchor(lps, q) ==
    LET i  == FindLp(lps, q.liquidity_provider)
        lp == lps[i]
    IN  [lps EXCEPT ![i] =
            [name |-> lp.name,
             buy_points |->
                 IF Len(lp.buy_points) = 0
                 THEN <<<< <<0, 0>>, OneMillBuy(q) >>>>
                 ELSE Append(lp.buy_points,
                             << AdjustedTimestamp(q.timestamp, lp.zero_time_ref),
                                OneMillBuy(q) >>),
             zero_time_ref |-> q.timestamp,
             global_start_hour |-> ParseOrZero(FormatHour(q.timestamp)),
             global_start_minute |-> ParseOrZero(FormatMinute(q.timestamp))]]

\* extract_market_data, second half: the first quote of a provider anchors
\* the series, every later one appends a point at its elapsed seconds
AddBuyPoint(lps, q) ==
    LET i  == FindLp(lps, q.liquidity_provider)
        lp == lps[i]
    IN  IF Len(lp.buy_points) = 0
        THEN [lps EXCEPT ![i] =
                [name |-> lp.name,
                 buy_points |-> <<<< <<0, 0>>, OneMillBuy(q) >>>>,
                 zero_time_ref |-> q.timestamp,
                 global_start_hour |-> ParseOrZero(FormatHour(q.timestamp)),
                 global_start_minute |-> ParseOrZero(FormatMinute(q.timestamp))]]
        ELSE [lps EXCEPT ![i].buy_points =
                Append(@, << AdjustedTimestamp(q.timestamp, lp.zero_time_ref),
                             OneMillBuy(q) >>)]

\* MarketData::update as one call: what it returns and the store it leaves;
\* "panic" when the subtraction overflows in a build that checks it
update(lps, payload, checks) ==
    LET q == ParseQuote(payload)
    IN  IF q.err # "Ok" THEN [res |-> q.err, md |-> lps]
        ELSE LET found == EnsureProvider(lps, q.liquidity_provider)
             IN  IF checks /\ Underflows(found, q)
                 THEN [res |-> "panic", md |-> found]
                 ELSE [res |-> "Ok", md |-> AddBuyPoint(found, q)]

(***************************************************************************)
(* The messages the transport can deliver.                                 *)
(***************************************************************************)
Zeros(n) == [i \in 1..n |-> "0"]

RECURSIVE Join(_)
Join(fields) ==
    IF Len(fields) = 1 THEN fields[1]
    ELSE fields[1] \o <<"|">> \o Join(Tail(fields))

CITI == <<"C", "I", "T", "I">>

BARX == <<"B", "A", "R", "X">>

EURUSD == <<"E", "U", "R", "U", "S", "D">>

\* 1000000000000000000 ns = 2001-09-09 01:46:40 UTC
T0 == <<"1">> \o Zeros(18)

\* T0 + 5 s
T0Plus5 == <<"1">> \o Zeros(8) \o <<"5">> \o Zeros(9)

\* T0 + 3.5 s
T0Plus3Half == <<"1">> \o Zeros(8) \o <<"3", "5">> \o Zeros(8)

\* T0 - 1 s
T0Minus1 == [i \in 1..9 |-> "9"] \o Zeros(9)

\* T0 + 1 h + 4 min = 02:50:40 UTC
T1 == <<"1">> \o Zeros(5) \o <<"3", "8", "4">> \o Zeros(10)

\* T0 + 80 s = 01:48:00 UTC
T0Plus80 == <<"1">> \o Zeros(7) \o <<"8">> \o Zeros(10)

\* T1 + 60 s = 02:51:40 UTC
T1Plus60 == <<"1">> \o Zeros(5) \o <<"3", "9">> \o Zeros(11)

Prices(b) == << <<b>>, <<"2">>, <<"3">>, <<"4">>, <<"5">>, <<"6">> >>

Quote(lp, b, ts) == Join(<<lp, EURUSD>> \o Prices(b) \o <<ts>>)

Text(s) == [kind |-> "Str", s |-> s]

Messages ==
    << Text(Quote(CITI, "1", T0)),
       Text(Quote(<<" ">> \o CITI \o <<" ">>, "7", T0Plus5)),
       Text(Quote(CITI, "8", T0Plus3Half)),
       Text(Quote(CITI, "9", T0Minus1)),
       Text(Quote(BARX, "5", T1)),
       \* 8 fields
       Text(Join(<<CITI, EURUSD>> \o Prices("1"))),
       \* blank provider
       Text(Quote(<<" ", " ">>, "1", T0)),
       \* blank currency pair
       Text(Join(<<BARX, <<" ">>>> \o Prices("1") \o <<T1>>)),
       \* the third price is "abc"
       Text(Join(<<CITI, EURUSD, <<"1">>, <<"2">>, <<"a", "b", "c">>,
                   <<"4">>, <<"5">>, <<"6">>, T0Plus5>>)),
       \* a negative timestamp
       Text(Quote(BARX, "1", <<"-", "1">>)),
       \* Message::payload_view::<str>() = None
       [kind |-> "None", s |-> <<>>],
       \* Message::payload_view::<str>() = Some(Err(Utf8Error))
       [kind |-> "Utf8Error", s |-> <<>>],
       \* message 1 again in other words: spaces before the name, another
       \* currency pair, "01" for the price, other prices, "+" before the
       \* timestamp and a tenth field
       Text(Join(<<<<" ">> \o CITI, <<"G", "B", "P", "U", "S", "D">>, <<"0", "1">>,
                   <<"9">>, <<"9">>, <<"9">>, <<"9">>, <<"9">>,
                   <<"+">> \o T0, <<"x">>>>)),
       Text(Quote(CITI, "4", T0Plus80)),
       Text(Quote(BARX, "6", T1Plus60)) >>

(***************************************************************************)
(* State.                                                                  *)
(***************************************************************************)
VARIABLES
    market_data,      \* MarketData::liquidity_providers, behind the mutex
    mutex,            \* [owner, poisoned] of the Mutex<MarketData>
    overflow_checks,  \* the build's overflow-checks setting (debug: TRUE)
    fx_pc,            \* the ingestion thread's position in consume()
    m,                \* the message being handled (index in Messages), or 0
    quote,            \* the locals of extract_market_data once parsed
    ui_pc,            \* the render thread's position in FxViewerApp::update
    frame,            \* what update() has read through its guard
    log,              \* the last line written by info!/error!
    received,         \* number of messages recv() has returned
    acked,            \* the messages commit_message() was called for, in order
    repaints,         \* number of ctx.request_repaint() calls
    md_at_call,       \* history: the store when MarketData::update was called
    applied,          \* history: the quotes of the updates that returned Ok
    underflowed,      \* history: a subtraction wrapped around
    raw,              \* a payload handed to MarketData::update on its own
    outcome,          \* what that call returned and the store it left
    tick,             \* arguments of one call of get_time_axis_string
    label             \* the string that call returned

\* the variables of the single calls, untouched by the two threads
call_vars == <<raw, outcome, tick, label>>

vars ==
    <<market_data, mutex, overflow_checks, fx_pc, m, quote, ui_pc, frame, log,
      received, acked, repaints, md_at_call, applied, underflowed, call_vars>>

fx_vars == <<fx_pc, m, quote, log, received, acked, repaints, md_at_call,
             applied, underflowed>>

Unlocked == [owner |-> "none", poisoned |-> FALSE]

\* nothing has been called on its own
NoCall ==
    /\ raw = <<>>
    /\ outcome = [res |-> "none", md |-> <<>>]
    /\ tick = [seconds |-> <<0, 0>>, start_hour |-> 0, start_minute |-> 0]
    /\ label = <<"?">>

\* the threads before their first step
Threads0 ==
    /\ market_data = <<>>
    /\ mutex = Unlocked
    /\ overflow_checks \in BOOLEAN
    /\ fx_pc = "recv"
    /\ m = 0
    /\ quote = NoQuote("none")
    /\ ui_pc = "idle"
    /\ frame = <<>>
    /\ log = "consuming messages"
    /\ received = 0
    /\ acked = <<>>
    /\ repaints = 0
    /\ md_at_call = <<>>
    /\ applied = <<>>
    /\ underflowed = FALSE

Init == Threads0 /\ NoCall

(***************************************************************************)
(* consumer.rs, consume(): the ingestion loop.                             *)
(***************************************************************************)
\* consumer.recv().await returns Ok(m)
FxRecv ==
    /\ fx_pc = "recv"
    /\ received < MaxMsgs
    /\ \E k \in 1..Len(Messages) : m' = k
    /\ received' = received + 1
    /\ fx_pc' = "view"
    /\ UNCHANGED <<market_data, mutex, overflow_checks, quote, ui_pc, frame, log,
                   acked, repaints, md_at_call, applied, underflowed>>
    /\ UNCHANGED call_vars

\* consumer.recv().await returns Err(e): logged, the loop goes on
FxRecvErr ==
    /\ fx_pc = "recv"
    /\ log' = "Error while receiving from Kafka"
    /\ UNCHANGED <<market_data, mutex, overflow_checks, fx_pc, m, quote, ui_pc,
                   frame, received, acked, repaints, md_at_call, applied,
                   underflowed>>
    /\ UNCHANGED call_vars

FxNoPayload ==
    /\ fx_pc = "view"
    /\ Messages[m].kind = "None"
    /\ log' = "No payload"
    /\ fx_pc' = "commit"
    /\ UNCHANGED <<market_data, mutex, overflow_checks, m, quote, ui_pc, frame,
                   received, acked, repaints, md_at_call, applied, underflowed>>
    /\ UNCHANGED call_vars

FxBadPayload ==
    /\ fx_pc = "view"
    /\ Messages[m].kind = "Utf8Error"
    /\ log' = "Error while deserializing message payload"
    /\ fx_pc' = "commit"
    /\ UNCHANGED <<market_data, mutex, overflow_checks, m, quote, ui_pc, frame,
                   received, acked, repaints, md_at_call, applied, underflowed>>
    /\ UNCHANGED call_vars

FxPayload ==
    /\ fx_pc = "view"
    /\ Messages[m].kind = "Str"
    /\ log' = "Received message"
    /\ fx_pc' = "lock"
    /\ UNCHANGED <<market_data, mutex, overflow_checks, m, quote, ui_pc, frame,
                   received, acked, repaints, md_at_call, applied, underflowed>>
    /\ UNCHANGED call_vars

\* market_data_mutex.lock().unwrap(): waits for the mutex; a poisoned mutex
\* makes unwrap panic and the guard inside the error is dropped
FxLock ==
    /\ fx_pc = "lock"
    /\ mutex.owner = "none"
    /\ IF mutex.poisoned
       THEN fx_pc' = "panicked" /\ UNCHANGED <<mutex, md_at_call>>
       ELSE /\ mutex' = [mutex EXCEPT !.owner = "fx"]
            /\ md_at_call' = market_data
            /\ fx_pc' = "parse"
    /\ UNCHANGED <<market_data, overflow_checks, m, quote, ui_pc, frame, log,
                   received, acked, repaints, applied, underflowed>>
    /\ UNCHANGED call_vars

\* the provider entry created as soon as its name is read, before the prices
\* and the timestamp are parsed (mutant of FxParse)
FxParse_PushFirst ==
    /\ fx_pc = "parse"
    /\ LET r == ParseQuote(Messages[m].s)
       IN  /\ quote' = r
           /\ fx_pc' = IF r.err = "Ok" THEN "lookup" ELSE "err"
    /\ LET lp == get_str_field(FieldOr(Split(Messages[m].s), 1))
       IN  market_data' = IF lp.err = "Ok" THEN EnsureProvider(market_data, lp.val)
                          ELSE market_data
    /\ UNCHANGED <<mutex, overflow_checks, m, ui_pc, frame, log,
                   received, acked, repaints, md_at_call, applied, underflowed>>
    /\ UNCHANGED call_vars

\* MarketData::update -> extract_market_data, lines 145-161
FxParse ==
    /\ fx_pc = "parse"
    /\ LET r == ParseQuote(Messages[m].s)
       IN  /\ quote' = r
           /\ fx_pc' = IF r.err = "Ok" THEN "lookup" ELSE "err"
    /\ UNCHANGED <<market_data, mutex, overflow_checks, m, ui_pc, frame, log,
                   received, acked, repaints, md_at_call, applied, underflowed>>
    /\ UNCHANGED call_vars

\* the guard scoped to the lookup alone: the mutex is released before the
\* point is added (mutant of FxLookup)
FxLookup_DropsGuard ==
    /\ fx_pc = "lookup"
    /\ market_data' = EnsureProvider(market_data, quote.liquidity_provider)
    /\ mutex' = [mutex EXCEPT !.owner = "none"]
    /\ fx_pc' = "apply"
    /\ UNCHANGED <<overflow_checks, m, quote, ui_pc, frame, log, received,
                   acked, repaints, md_at_call, applied, underflowed>>
    /\ UNCHANGED call_vars

\* extract_market_data, lines 165-178
FxLookup ==
    /\ fx_pc = "lookup"
    /\ market_data' = EnsureProvider(market_data, quote.liquidity_provider)
    /\ fx_pc' = "apply"
    /\ UNCHANGED <<mutex, overflow_checks, m, quote, ui_pc, frame, log, received,
                   acked, repaints, md_at_call, applied, underflowed>>
    /\ UNCHANGED call_vars

\* extract_market_data, lines 181-217.  With overflow checks the subtraction
\* of a larger zero_time_ref panics: the thread unwinds, the guard is dropped
\* and the mutex is poisoned.  Without them it wraps.
FxApply ==
    /\ fx_pc = "apply"
    /\ IF Underflows(market_data, quote) /\ overflow_checks
       THEN /\ fx_pc' = "panicked"
            /\ mutex' = [owner |-> "none", poisoned |-> TRUE]
            /\ UNCHANGED <<market_data, applied, underflowed>>
       ELSE /\ market_data' = AddBuyPoint(market_data, quote)
            /\ applied' = Append(applied, quote)
            /\ underflowed' = (underflowed \/ Underflows(market_data, quote))
            /\ fx_pc' = "ok"
            /\ UNCHANGED mutex
    /\ UNCHANGED <<overflow_checks, m, quote, ui_pc, frame, log, received, acked,
                   repaints, md_at_call>>
    /\ UNCHANGED call_vars

\* the result of update unwrapped: an Err ends the thread, the guard is
\* dropped while panicking (mutant of FxUpdateErr)
FxUpdateErr_Halts ==
    /\ fx_pc = "err"
    /\ log' = "market data not processed"
    /\ mutex' = [owner |-> "none", poisoned |-> TRUE]
    /\ fx_pc' = "panicked"
    /\ UNCHANGED <<market_data, overflow_checks, m, quote, ui_pc, frame, received,
                   acked, repaints, md_at_call, applied, underflowed>>
    /\ UNCHANGED call_vars

\* request_repaint() called whatever update returned (mutant of
\* FxUpdateErr)
FxUpdateErr_Repaints ==
    /\ fx_pc = "err"
    /\ log' = "market data not processed"
    /\ repaints' = repaints + 1
    /\ mutex' = [mutex EXCEPT !.owner = "none"]
    /\ fx_pc' = "commit"
    /\ UNCHANGED <<market_data, overflow_checks, m, quote, ui_pc, frame, received,
                   acked, md_at_call, applied, underflowed>>
    /\ UNCHANGED call_vars

\* update returned Err(e): logged; the guard is dropped at the end of the arm
FxUpdateErr ==
    /\ fx_pc = "err"
    /\ log' = "market data not processed"
    /\ mutex' = [mutex EXCEPT !.owner = "none"]
    /\ fx_pc' = "commit"
    /\ UNCHANGED <<market_data, overflow_checks, m, quote, ui_pc, frame, received,
                   acked, repaints, md_at_call, applied, underflowed>>
    /\ UNCHANGED call_vars

\* update returned Ok(()): ctx.request_repaint(); the guard is dropped
FxUpdateOk ==
    /\ fx_pc = "ok"
    /\ repaints' = repaints + 1
    /\ mutex' = [mutex EXCEPT !.owner = "none"]
    /\ fx_pc' = "commit"
    /\ UNCHANGED <<market_data, overflow_checks, m, quote, ui_pc, frame, log,
                   received, acked, md_at_call, applied, underflowed>>
    /\ UNCHANGED call_vars

\* consumer.commit_message(&m, CommitMode::Async)
FxCommit ==
    /\ fx_pc = "commit"
    /\ acked' = Append(acked, received)
    /\ m' = 0
    /\ quote' = NoQuote("none")
    /\ fx_pc' = "recv"
    /\ UNCHANGED <<market_data, mutex, overflow_checks, ui_pc, frame, log,
                   received, repaints, md_at_call, applied, underflowed>>
    /\ UNCHANGED call_vars

(***************************************************************************)
(* lib.rs, FxViewerApp::update: one frame of the render thread.            *)
(***************************************************************************)
\* self.market_data_mutex.lock().unwrap()
UiLock ==
    /\ ui_pc = "idle"
    /\ mutex.owner = "none"
    /\ IF mutex.poisoned
       THEN ui_pc' = "panicked" /\ UNCHANGED mutex
       ELSE mutex' = [mutex EXCEPT !.owner = "ui"] /\ ui_pc' = "update"
    /\ UNCHANGED <<market_data, overflow_checks, frame>>
    /\ UNCHANGED fx_vars
    /\ UNCHANGED call_vars

\* the body of update(): the providers, their names and points are read
\* through the guard
UiUpdate ==
    /\ ui_pc = "update"
    /\ frame' = market_data
    /\ ui_pc' = "drawn"
    /\ UNCHANGED <<market_data, mutex, overflow_checks>>
    /\ UNCHANGED fx_vars
    /\ UNCHANGED call_vars

\* update() returns and the guard is dropped
UiReturn ==
    /\ ui_pc = "drawn"
    /\ mutex' = [mutex EXCEPT !.owner = "none"]
    /\ frame' = <<>>
    /\ ui_pc' = "idle"
    /\ UNCHANGED <<market_data, overflow_checks>>
    /\ UNCHANGED fx_vars
    /\ UNCHANGED call_vars

Next ==
    \/ FxRecv
    \/ FxRecvErr
    \/ FxNoPayload
    \/ FxBadPayload
    \/ FxPayload
    \/ FxLock
    \/ FxParse
    \/ FxLookup
    \/ FxApply
    \/ FxUpdateErr
    \/ FxUpdateOk
    \/ FxCommit
    \/ UiLock
    \/ UiUpdate
    \/ UiReturn

Spec == Init /\ [][Next]_vars

(***************************************************************************)
(* MarketData::update called once on a new store, for a family of          *)
(* payloads: every choice of the fields below, cut after any number of     *)
(* fields or followed by extra ones.                                       *)
(***************************************************************************)
NumStr(ds) == [i \in 1..Len(ds) |-> Digits[ds[i] + 1]]

ProviderFields == {CITI, <<>>, <<" ">> \o BARX \o <<" ">>}

PairFields == {EURUSD, <<" ">>}

BuyFields == {<<"1">>, <<"a">>, <<"-", "1">>, <<>>}

FiveMillBuyFields == {<<"5">>, <<"x">>}

TimestampFields ==
    { T0,
      <<"0">>,
      \* 00:00:59.999999999, 00:01:00, 00:59:59.999999999, 01:00:00
      <<"5">> \o NumStr([i \in 1..10 |-> 9]),
      <<"6">> \o Zeros(10),
      <<"3", "5">> \o NumStr([i \in 1..11 |-> 9]),
      <<"3", "6">> \o Zeros(11),
      \* 23:59:59.999999999 and 00:00:00 of the next day
      <<"8", "6", "3">> \o NumStr([i \in 1..11 |-> 9]),
      <<"8", "6", "4">> \o Zeros(11),
      \* u64::MAX and u64::MAX + 1
      NumStr(<<1, 8, 4, 4, 6, 7, 4, 4, 0, 7, 3, 7, 0, 9, 5, 5, 1, 6, 1, 5>>),
      NumStr(<<1, 8, 4, 4, 6, 7, 4, 4, 0, 7, 3, 7, 0, 9, 5, 5, 1, 6, 1, 6>>),
      <<"-", "1">>,
      <<>>,
      <<" ", "7", " ">>,
      <<"+", "5">>,
      <<"1", "2", "a">> }

RawPayloads ==
    { Join(SubSeq(<<lp, cp, b1, <<"2">>, <<"3">>, <<"4">>, b5, <<"6">>, ts>>
                  \o [i \in 1..MaxExtraFields |-> <<"x">>], 1, n)) :
        lp \in ProviderFields, cp \in PairFields, b1 \in BuyFields,
        b5 \in FiveMillBuyFields, ts \in TimestampFields,
        n \in 1..(NumFields + MaxExtraFields) }

UpdateInit ==
    /\ Threads0
    /\ raw \in RawPayloads
    /\ outcome = [res |-> "none", md |-> <<>>]
    /\ tick = [seconds |-> <<0, 0>>, start_hour |-> 0, start_minute |-> 0]
    /\ label = <<"?">>

\* MarketData::new() followed by update(raw)
UpdateCall ==
    /\ outcome.res = "none"
    /\ outcome' = update(<<>>, raw, overflow_checks)
    /\ UNCHANGED <<market_data, mutex, overflow_checks, fx_pc, m, quote, ui_pc,
                   frame, log, received, acked, repaints, md_at_call, applied,
                   underflowed, raw, tick, label>>

UpdateNext == UpdateCall

UpdateSpec == UpdateInit /\ [][UpdateNext]_vars

(***************************************************************************)
(* get_time_axis_string.  The f64 seconds of a tick is a whole number kept *)
(* as two limbs <<a, b>> = a*10^9 + b with 0 <= b < 10^9; a < 0 for a      *)
(* negative tick.  start_hour and start_minute are whole numbers.          *)
(***************************************************************************)
SecsGe(seconds, n) == seconds[1] > 0 \/ (seconds[1] = 0 /\ seconds[2] >= n)

\* "seconds as u32 / 60": the cast saturates at 0 and at u32::MAX =
\* 4294967295, and 4294967295 / 60 = 71582788; below that the quotient is
\* taken limb by limb, 10^9 = 60 * 16666666 + 40
MinutesPart(seconds) ==
    IF seconds[1] < 0 THEN 0
    ELSE IF seconds[1] > 4 \/ (seconds[1] = 4 /\ seconds[2] >= 294967295)
         THEN 71582788
    ELSE seconds[1] * 16666666 + ((seconds[1] * 40 + seconds[2]) \div 60)

\* format!("{:02}:{:02}", hour, minute)
TimeLabel(hour, minute) == Format02(hour) \o <<":">> \o Format02(minute)

\* seconds > 60 instead of >= (mutant of AtLeastMinute)
AtLeastMinute_Strict(seconds) == SecsGe(seconds, 61)

AtLeastMinute(seconds) == SecsGe(seconds, 60)

get_time_axis_string(seconds, start_hour, start_minute) ==
    LET minutes_part == MinutesPart(seconds)
        remaining_minutes == minutes_part % 60
    IN  IF SecsGe(seconds, 3600)
        THEN IF remaining_minutes + start_minute >= 60
             THEN TimeLabel((start_hour + (minutes_part \div 60) + 1) % 24,
                            (start_minute + (minutes_part % 60)) - 60)
             ELSE TimeLabel((start_hour + (minutes_part \div 60)) % 24,
                            start_minute + (minutes_part % 60))
        ELSE IF AtLeastMinute(seconds)
        THEN IF minutes_part + start_minute >= 60
             THEN TimeLabel((start_hour + 1) % 24,
                            (start_minute + minutes_part) - 60)
             ELSE TimeLabel(start_hour, start_minute + minutes_part)
        ELSE <<>>

\* the formatter closure of the time axis: every tick is labelled from the
\* anchor of liquidity_providers[0]
time_formatter(lps, mark) ==
    get_time_axis_string(mark, lps[1].global_start_hour,
                         lps[1].global_start_minute)

\* the tick values tried: every whole minute up to MaxTickMinutes, values
\* around the minute, hour and day boundaries, negative ones, and values
\* around u32::MAX up to the largest x a wrapped subtraction can store
Ticks ==
    { <<0, 60 * k>> : k \in 0..MaxTickMinutes }
    \cup { <<0, e>> : e \in {30, 59, 61, 119, 3599, 3600, 3660, 7199, 7200,
                             86399, 86400, 86460, 90060} }
    \cup { <<-1, 999999995>>, <<-1, 0>>,
           <<4, 294967279>>, <<4, 294967295>>, <<4, 294967296>>,
           <<4, 294967339>>, <<4, 294967340>>, <<18, 446744068>> }

LabelInit ==
    /\ Threads0
    /\ overflow_checks
    /\ raw = <<>>
    /\ outcome = [res |-> "none", md |-> <<>>]
    /\ tick \in [seconds : Ticks, start_hour : 0..23, start_minute : 0..59]
    /\ label = <<"?">>

Label ==
    /\ label = <<"?">>
    /\ label' = get_time_axis_string(tick.seconds, tick.start_hour,
                                     tick.start_minute)
    /\ UNCHANGED <<market_data, mutex, overflow_checks, fx_pc, m, quote, ui_pc,
                   frame, log, received, acked, repaints, md_at_call, applied,
                   underflowed, raw, outcome, tick>>

LabelNext == Label

LabelSpec == LabelInit /\ [][LabelNext]_vars

(***************************************************************************)
(* Helpers of the properties.                                              *)
(***************************************************************************)
\* the raw provider field of the message being handled, and its trimmed form
RawName == FieldOr(Split(Messages[m].s), 1)

TrimmedName == Trim(RawName)

\* order on whole seconds <<a, b>>
SecsLe(x, y) == x[1] < y[1] \/ (x[1] = y[1] /\ x[2] <= y[2])

\* t + x seconds, for a u64 t and whole seconds x, not reduced mod 2^64
AddSecs(t, x) ==
    LET b == t[2] + x[2]
    IN  <<t[1] + x[1] + (b \div NanosPerSec), b % NanosPerSec, t[3]>>

SecsIncr(x) ==
    IF x[2] + 1 < NanosPerSec THEN <<x[1], x[2] + 1>> ELSE <<x[1] + 1, 0>>

\* the first quote of a provider among the updates that returned Ok
FirstApplied(name) ==
    applied[CHOOSE k \in 1..Len(applied) :
                /\ applied[k].liquidity_provider = name
                /\ \A j \in 1..(k - 1) : applied[j].liquidity_provider # name]

\* the store after applying a sequence of quotes, each one in full
RECURSIVE Replay(_)
Replay(qs) ==
    IF qs = <<>> THEN <<>>
    ELSE LET before == Replay(SubSeq(qs, 1, Len(qs) - 1))
             q      == qs[Len(qs)]
         IN  AddBuyPoint(EnsureProvider(before, q.liquidity_provider), q)

(***************************************************************************)
(* C1: whenever MarketData::update has returned an error, the store is     *)
(* the store it was called with: same providers in the same order, same    *)
(* points, same zero_time_ref and start hour and minute.                   *)
(***************************************************************************)
C1_ErrorLeavesStore ==
    fx_pc = "err" => market_data = md_at_call

\* a price fails to parse (P5) on a store that already holds a series
C1_Witness ==
    /\ fx_pc = "err"
    /\ quote.err = "ParseFloat"
    /\ market_data # <<>>

(***************************************************************************)
(* C2: in every provider's series the x values of buy_points never         *)
(* decrease along the sequence.  (Stated as the claim; the code breaks it.)*)
(***************************************************************************)
C2_XNonDecreasing ==
    \A i \in 1..Len(market_data) :
        \A j \in 1..Len(market_data[i].buy_points) :
            \A k \in j..Len(market_data[i].buy_points) :
                SecsLe(market_data[i].buy_points[j][1],
                       market_data[i].buy_points[k][1])

(***************************************************************************)
(* C3: applying a parsed quote never fails: the ingestion thread never     *)
(* aborts and timestamp - zero_time_ref never underflows.  (Stated as the  *)
(* claim; the code breaks it.)                                             *)
(***************************************************************************)
C3_ApplyNeverFails ==
    /\ fx_pc # "panicked"
    /\ ~underflowed

(***************************************************************************)
(* C4: an update that returned Ok for a provider the store did not hold    *)
(* has added, at the end, a series of that trimmed name whose buy_points   *)
(* is exactly [(0, buy_1m)] and whose zero_time_ref is the message's       *)
(* timestamp; and the first point of every non-empty series is             *)
(* (0, buy_1m of the provider's first accepted quote).                     *)
(***************************************************************************)
C4_NewProviderSeries ==
    /\ (fx_pc = "ok" /\ ~HasLp(md_at_call, TrimmedName)) =>
          /\ Len(market_data) = Len(md_at_call) + 1
          /\ LET lp == market_data[Len(market_data)]
             IN  /\ lp.name = TrimmedName
                 /\ lp.buy_points = << << <<0, 0>>, quote.vol_prices_vec[1] >> >>
                 /\ lp.zero_time_ref = quote.timestamp
    /\ \A i \in 1..Len(market_data) :
          market_data[i].buy_points # <<>> =>
              /\ \E k \in 1..Len(applied) :
                    applied[k].liquidity_provider = market_data[i].name
              /\ market_data[i].buy_points[1] =
                    << <<0, 0>>, FirstApplied(market_data[i].name).vol_prices_vec[1] >>
              /\ market_data[i].zero_time_ref =
                    FirstApplied(market_data[i].name).timestamp

\* a second provider is discovered and a known one has a later point
C4_Witness ==
    /\ fx_pc = "ok"
    /\ ~HasLp(md_at_call, TrimmedName)
    /\ md_at_call # <<>>
    /\ quote.timestamp # <<0, 0, 0>>

(***************************************************************************)
(* C5: an update that returned Ok for a provider the store held, with a    *)
(* timestamp >= the provider's zero_time_ref, has appended exactly the     *)
(* point (x, buy_1m) at the tail of its buy_points, x being the whole      *)
(* number with zero_time_ref + x s <= timestamp < zero_time_ref + (x+1) s. *)
(***************************************************************************)
C5_AppendsElapsedSeconds ==
    (/\ fx_pc = "ok"
     /\ HasLp(md_at_call, TrimmedName)
     /\ U64Le(md_at_call[FindLp(md_at_call, TrimmedName)].zero_time_ref,
              quote.timestamp)) =>
        LET i    == FindLp(md_at_call, TrimmedName)
            old  == md_at_call[i].buy_points
            new  == market_data[i].buy_points
            zero == md_at_call[i].zero_time_ref
            x    == new[Len(new)][1]
        IN  /\ Len(new) = Len(old) + 1
            /\ SubSeq(new, 1, Len(old)) = old
            /\ new[Len(new)][2] = quote.vol_prices_vec[1]
            /\ U64Le(AddSecs(zero, x), quote.timestamp)
            /\ U64Lt(quote.timestamp, AddSecs(zero, SecsIncr(x)))

\* the elapsed time is not a whole number of seconds
C5_Witness ==
    /\ fx_pc = "ok"
    /\ HasLp(md_at_call, TrimmedName)
    /\ U64Lt(md_at_call[FindLp(md_at_call, TrimmedName)].zero_time_ref,
             quote.timestamp)
    /\ quote.timestamp[3] #
          md_at_call[FindLp(md_at_call, TrimmedName)].zero_time_ref[3]

(***************************************************************************)
(* C6: the store never holds two series whose names are equal after        *)
(* trimming surrounding whitespace.                                        *)
(***************************************************************************)
C6_OneSeriesPerName ==
    \A i, j \in 1..Len(market_data) :
        i # j => Trim(market_data[i].name) # Trim(market_data[j].name)

\* a quote whose provider field carries surrounding whitespace has been
\* applied to the series the bare name created
C6_Witness ==
    /\ fx_pc = "ok"
    /\ RawName # TrimmedName
    /\ HasLp(md_at_call, TrimmedName)
    /\ Len(market_data) = 1

(***************************************************************************)
(* C7: once a provider's series holds its first point, its zero_time_ref,  *)
(* start hour and start minute never change again, whatever step is taken. *)
(***************************************************************************)
C7_AnchorsWriteOnce ==
    [][\A i \in 1..Len(market_data) :
          market_data[i].buy_points # <<>> =>
              /\ i <= Len(market_data')
              /\ market_data'[i].name = market_data[i].name
              /\ market_data'[i].zero_time_ref = market_data[i].zero_time_ref
              /\ market_data'[i].global_start_hour = market_data[i].global_start_hour
              /\ market_data'[i].global_start_minute =
                    market_data[i].global_start_minute]_vars

\* a provider has taken a later quote with another timestamp, after another
\* provider was anchored at another hour and minute
C7_Witness ==
    /\ Len(market_data) = 2
    /\ Len(market_data[1].buy_points) = 2
    /\ market_data[2].buy_points # <<>>
    /\ market_data[2].global_start_hour # market_data[1].global_start_hour
    /\ \E k \in 1..Len(applied) :
          /\ applied[k].liquidity_provider = market_data[1].name
          /\ applied[k].timestamp # market_data[1].zero_time_ref

(***************************************************************************)
(* C8: an update that returned Ok for provider P has changed the store     *)
(* only by one point appended at the tail of P's buy_points, P's series    *)
(* being created at the end of the list when P is new; every other series, *)
(* the order of the providers, P's name, anchors and earlier points are    *)
(* unchanged, and the providers are listed in order of first discovery.    *)
(***************************************************************************)
RECURSIVE Discovered(_)
Discovered(qs) ==
    IF qs = <<>> THEN <<>>
    ELSE LET before == Discovered(SubSeq(qs, 1, Len(qs) - 1))
             name   == qs[Len(qs)].liquidity_provider
         IN  IF \E k \in 1..Len(before) : before[k] = name THEN before
             ELSE Append(before, name)

C8_OnlyAppendsOnePoint ==
    /\ fx_pc = "ok" =>
          IF HasLp(md_at_call, TrimmedName)
          THEN LET i == FindLp(md_at_call, TrimmedName)
               IN  /\ Len(market_data) = Len(md_at_call)
                   /\ \A j \in 1..Len(md_at_call) :
                         j # i => market_data[j] = md_at_call[j]
                   /\ Len(market_data[i].buy_points) =
                         Len(md_at_call[i].buy_points) + 1
                   /\ market_data[i] =
                         [md_at_call[i] EXCEPT !.buy_points =
                             Append(@, market_data[i].buy_points[
                                           Len(market_data[i].buy_points)])]
          ELSE /\ Len(market_data) = Len(md_at_call) + 1
               /\ SubSeq(market_data, 1, Len(md_at_call)) = md_at_call
               /\ market_data[Len(market_data)].name = TrimmedName
               /\ Len(market_data[Len(market_data)].buy_points) = 1
    /\ fx_pc # "apply" =>
          [i \in 1..Len(market_data) |-> market_data[i].name] = Discovered(applied)

\* the provider discovered first takes a point after a second was discovered
C8_Witness ==
    /\ fx_pc = "ok"
    /\ Len(md_at_call) = 2
    /\ TrimmedName = md_at_call[1].name
    /\ md_at_call[2].buy_points # <<>>

(***************************************************************************)
(* C9: what the render thread has read through its guard is the store      *)
(* after some prefix of the accepted quotes, each applied in full; it      *)
(* never shows a provider without points.                                  *)
(***************************************************************************)
C9_FrameIsPrefixState ==
    ui_pc = "drawn" =>
        /\ \E k \in 0..Len(applied) : frame = Replay(SubSeq(applied, 1, k))
        /\ \A i \in 1..Len(frame) : frame[i].buy_points # <<>>

\* the render thread holds a non-empty frame while the ingestion thread,
\* with a quote for a new provider in hand, waits for the mutex
C9_Witness ==
    /\ ui_pc = "drawn"
    /\ frame # <<>>
    /\ fx_pc = "lock"
    /\ Messages[m].kind = "Str"
    /\ ParseQuote(Messages[m].s).err = "Ok"
    /\ ~HasLp(frame, TrimmedName)

(***************************************************************************)
(* C10: every message received is committed exactly once, after it was     *)
(* handled and before the next one is received: whenever the ingestion     *)
(* thread is not handling a message, the commits are exactly the messages  *)
(* received, in order, and while it handles one they are the earlier ones. *)
(* (Stated as the claim; the code breaks it.)                              *)
(***************************************************************************)
C10_AckedExactlyOnce ==
    IF fx_pc \in {"view", "lock", "parse", "lookup", "apply", "err", "ok", "commit"}
    THEN acked = [k \in 1..(received - 1) |-> k]
    ELSE acked = [k \in 1..received |-> k]

(***************************************************************************)
(* C11: a rejected message (parse failure, no payload, undecodable         *)
(* payload) never stops the ingestion loop.  On every step: the thread     *)
(* ends only while handling a message that parsed; from a rejected message *)
(* its next step is always possible and leads to the commit, and from the  *)
(* commit to receiving; and whenever it is back at receiving the store is  *)
(* what the accepted quotes alone produce, as if the rejected messages had *)
(* never been delivered.                                                   *)
(***************************************************************************)
Rejected ==
    \/ fx_pc = "err"
    \/ fx_pc = "view" /\ Messages[m].kind # "Str"

C12_RepaintPerAccepted ==
    /\ repaints = IF fx_pc = "ok" THEN Len(applied) - 1 ELSE Len(applied)
    /\ fx_pc = "ok" => market_data = Replay(applied)

\* of three messages, two were applied and one was rejected
C12_Witness ==
    /\ fx_pc = "recv"
    /\ received = 3
    /\ repaints = 2
    /\ Len(applied) = 2

(***************************************************************************)
(* C13: the result of update is decided by the first failing check in      *)
(* positional order: fewer than 9 fields is NumParams whatever the fields  *)
(* hold; else a blank provider or currency pair is IsEmpty; else a price   *)
(* that is no number is ParseFloat; else a timestamp that is no u64 is     *)
(* ParseInt; else the message is accepted.  The shapes are stated on the   *)
(* characters of the fields.                                               *)
(***************************************************************************)
IsBlank(s) == \A i \in 1..Len(s) : s[i] = " "

\* the field without its surrounding spaces, for a field that is not blank
Core(s) ==
    LET i == CHOOSE a \in 1..Len(s) : s[a] # " " /\ \A b \in 1..(a - 1) : s[b] = " "
        j == CHOOSE a \in 1..Len(s) : s[a] # " " /\ \A b \in (a + 1)..Len(s) : s[b] = " "
    IN  [k \in 1..(j - i + 1) |-> s[i + k - 1]]

DigitSet == {"0", "1", "2", "3", "4", "5", "6", "7", "8", "9"}

DigitRun(d) == Len(d) > 0 /\ \A i \in 1..Len(d) : d[i] \in DigitSet

FloatShape(s) ==
    /\ ~IsBlank(s)
    /\ LET c == Core(s)
       IN  DigitRun(IF c[1] \in {"+", "-"} THEN Tail(c) ELSE c)

\* a run of digits is at most 18446744073709551615
FitsU64(d) ==
    LET top == NumStr(<<1, 8, 4, 4, 6, 7, 4, 4, 0, 7, 3, 7, 0, 9, 5, 5, 1, 6, 1, 5>>)
        lead == Cardinality({a \in 1..Len(d) : \A b \in 1..a : d[b] = "0"})
        z == [k \in 1..(Len(d) - lead) |-> d[lead + k]]
    IN  \/ Len(z) < Len(top)
        \/ z = top
        \/ /\ Len(z) = Len(top)
           /\ \E a \in 1..Len(z) :
                 /\ \A b \in 1..(a - 1) : z[b] = top[b]
                 /\ \E v \in 1..10 : \E w \in (v + 1)..10 :
                       z[a] = Digits[v] /\ top[a] = Digits[w]

U64Shape(s) ==
    /\ ~IsBlank(s)
    /\ LET c == Core(s)
           d == IF c[1] = "+" THEN Tail(c) ELSE c
       IN  DigitRun(d) /\ FitsU64(d)

\* the number of "|" in the payload, plus one
FieldCount(s) == Cardinality({i \in 1..Len(s) : s[i] = "|"}) + 1

\* the text between the (k-1)-th and the k-th "|"
FieldAt(s, k) ==
    LET bars == {i \in 1..Len(s) : s[i] = "|"}
        from == IF k = 1 THEN 0
                ELSE CHOOSE i \in bars : Cardinality({j \in bars : j < i}) = k - 2
        to   == IF k = FieldCount(s) THEN Len(s) + 1
                ELSE CHOOSE i \in bars : Cardinality({j \in bars : j < i}) = k - 1
    IN  [a \in 1..(to - from - 1) |-> s[from + a]]

Classified(s) ==
    IF FieldCount(s) < 9 THEN "NumParams"
    ELSE IF IsBlank(FieldAt(s, 1)) \/ IsBlank(FieldAt(s, 2)) THEN "IsEmpty"
    ELSE IF \E k \in 3..8 : ~FloatShape(FieldAt(s, k)) THEN "ParseFloat"
    ELSE IF ~U64Shape(FieldAt(s, 9)) THEN "ParseInt"
    ELSE "Ok"

C13_FirstFailingCheck ==
    outcome.res # "none" => outcome.res = Classified(raw)

\* eight fields, of which the provider is blank and a price is no number
C13_Witness ==
    /\ outcome.res = "NumParams"
    /\ FieldCount(raw) = 8
    /\ IsBlank(FieldAt(raw, 1))
    /\ FieldAt(raw, 3) = <<"a">>

(***************************************************************************)
(* C14: for every whole-second e >= 60, start_hour in 0..23 and            *)
(* start_minute in 0..59 the label is "HH:MM", two digits each, with       *)
(* HH = floor((start_hour*60 + start_minute + floor(e/60)) / 60) mod 24    *)
(* and MM = (start_minute + floor(e/60)) mod 60; label(3660, 23, 59) is    *)
(* "01:00".                                                                *)
(***************************************************************************)
Labelled == label # <<"?">>

\* floor(e / 60) of the tick itself, with no cast
WholeMinutes(e) == e[1] * 16666666 + ((e[1] * 40 + e[2]) \div 60)

TwoDigits(n) ==
    <<Digits[CHOOSE d \in 1..10 : (d - 1) * 10 <= n /\ n < d * 10],
      Digits[CHOOSE d \in 1..10 : (n - (d - 1)) % 10 = 0]>>

ClaimedLabel(e, sh, sm) ==
    TwoDigits(((sh * 60 + sm + WholeMinutes(e)) \div 60) % 24)
        \o <<":">> \o TwoDigits((sm + WholeMinutes(e)) % 60)

C14_LabelIsClockTime ==
    /\ (Labelled /\ SecsGe(tick.seconds, 60)) =>
          label = ClaimedLabel(tick.seconds, tick.start_hour, tick.start_minute)
    /\ (Labelled /\ tick = [seconds |-> <<0, 3660>>, start_hour |-> 23,
                            start_minute |-> 59]) =>
          label = <<"0", "1", ":", "0", "0">>

(***************************************************************************)
(* C15: for every e < 60, negative ones included, and every start hour and *)
(* minute the label is the empty string; for every e >= 60 it is not.      *)
(***************************************************************************)
BelowMinute(e) == e[1] < 0 \/ (e[1] = 0 /\ e[2] < 60)

C15_BlankBelowMinute ==
    Labelled => (label = <<>> <=> BelowMinute(tick.seconds))

C15_Witness ==
    /\ Labelled
    /\ tick.seconds[1] < 0
    /\ tick.start_hour = 23
    /\ tick.start_minute = 59
    /\ label = <<>>

(***************************************************************************)
(* C16: the store after an accepted message depends only on the trimmed    *)
(* provider name, the buy_1m price and the timestamp: any other accepted   *)
(* message with the same three values, applied to the store the update     *)
(* started from, gives the same store, whatever its currency pair, its     *)
(* other five prices and its fields beyond the ninth.                      *)
(***************************************************************************)
Agree(s, t) ==
    /\ Classified(s) = "Ok"
    /\ Classified(t) = "Ok"
    /\ Core(FieldAt(s, 1)) = Core(FieldAt(t, 1))
    /\ ParseF64(Core(FieldAt(s, 3))).val = ParseF64(Core(FieldAt(t, 3))).val
    /\ ParseU64(Core(FieldAt(s, 9))).val = ParseU64(Core(FieldAt(t, 9))).val

Twins(k) ==
    { j \in 1..Len(Messages) :
        /\ Messages[j].kind = "Str"
        /\ Agree(Messages[j].s, Messages[k].s) }

C16_OnlyThreeFields ==
    fx_pc = "ok" =>
        \A j \in Twins(m) :
            update(md_at_call, Messages[j].s, overflow_checks)
                = [res |-> "Ok", md |-> market_data]

\* the reworded message applied to a store that already holds the provider
C16_Witness ==
    /\ fx_pc = "ok"
    /\ m = 13
    /\ Twins(m) = {1, 13}
    /\ Messages[1].s # Messages[13].s
    /\ md_at_call # <<>>
    /\ Len(market_data[1].buy_points) = 2

(***************************************************************************)
(* C17: the ingestion thread takes the store lock only after the message   *)
(* has been parsed and validated: while it holds the lock the quote of the *)
(* current message is already parsed, and a message that fails parsing     *)
(* never has the lock taken for it.                                        *)
(***************************************************************************)
C17_LockAfterParse ==
    /\ mutex.owner = "fx" => fx_pc \in {"lookup", "apply", "ok"}
    /\ fx_pc = "err" => mutex.owner # "fx"

(***************************************************************************)
(* C18: the renderer is never starved and no deadlock is reachable: an     *)
(* attempt of either thread to take the store lock is never refused, the   *)
(* lock is always held by a thread that is at a step it can take, and the  *)
(* ingestion thread does not hold it while it waits for the next message.  *)
(* (The safety part of the claim; a refused attempt is never granted       *)
(* later, so it refutes the eventual grant as well.)                       *)
(***************************************************************************)
C18_NeverStarved ==
    /\ ui_pc # "panicked"
    /\ mutex.poisoned => fx_pc # "lock"
    /\ mutex.owner = "fx" => fx_pc \in {"parse", "lookup", "apply", "err", "ok"}
    /\ mutex.owner = "ui" => ui_pc \in {"update", "drawn"}
    /\ fx_pc \in {"recv", "view", "commit"} => mutex.owner # "fx"

(***************************************************************************)
(* C19: the anchor captured from a provider's first accepted quote is      *)
(* start_hour = floor(timestamp_ns / 3600000000000) mod 24 and             *)
(* start_minute = floor(timestamp_ns / 60000000000) mod 60, for every u64  *)
(* timestamp; start_hour is in 0..23 and start_minute in 0..59, and the    *)
(* conversion never falls back to its default of zero.                     *)
(***************************************************************************)
\* floor(t / 3600000000000) and floor(t / 60000000000) of a u64 in limbs:
\* 10^9 = 3600 * 277777 + 2800 = 60 * 16666666 + 40
HoursSinceEpoch(t) == t[1] * 277777 + ((t[1] * 2800 + t[2]) \div 3600)

MinutesSinceEpoch(t) == t[1] * 16666666 + ((t[1] * 40 + t[2]) \div 60)

C19_AnchorIsUtcClock ==
    outcome.res = "Ok" =>
        LET lp == outcome.md[1]
        IN  /\ lp.global_start_hour = HoursSinceEpoch(lp.zero_time_ref) % 24
            /\ lp.global_start_minute = MinutesSinceEpoch(lp.zero_time_ref) % 60
            /\ lp.global_start_hour \in 0..23
            /\ lp.global_start_minute \in 0..59
            /\ ParseF64(FormatHour(lp.zero_time_ref)).ok
            /\ ParseF64(FormatMinute(lp.zero_time_ref)).ok

\* the first quote of a provider carries u64::MAX: 23:34 UTC
C19_Witness ==
    /\ outcome.res = "Ok"
    /\ outcome.md[1].zero_time_ref = U64Max
    /\ outcome.md[1].global_start_hour = 23
    /\ outcome.md[1].global_start_minute = 34

(***************************************************************************)
(* C20: for every provider in the store and every point (x, price) of it   *)
(* with x >= 60, produced from a quote with timestamp T, the label the     *)
(* renderer computes for the tick x is the UTC "HH:MM" of T; for every     *)
(* provider, not only the first discovered, and whatever the seconds       *)
(* within the minute of the provider's first timestamp.                    *)
(***************************************************************************)
\* the quote that produced the j-th point of the provider
QuoteOfPoint(name, j) ==
    SelectSeq(applied, LAMBDA q : q.liquidity_provider = name)[j]

ClockOf(T) ==
    TwoDigits(HoursSinceEpoch(T) % 24) \o <<":">>
        \o TwoDigits(MinutesSinceEpoch(T) % 60)

C20_LabelIsTimeOfQuote ==
    ui_pc = "drawn" =>
        \A i \in 1..Len(frame) : \A j \in 1..Len(frame[i].buy_points) :
            LET x == frame[i].buy_points[j][1]
            IN  SecsGe(x, 60) =>
                    time_formatter(frame, x)
                        = ClockOf(QuoteOfPoint(frame[i].name, j).timestamp)

=============================================================================
